---- MODULE Spec2Model ----
(***************************************************************************)
(* A model of DomainMapper (domain_mapper.py): the registry that derives a *)
(* flask-restplus model (output schema) and a marshmallow schema (input    *)
(* schema) from a live domain object, and the lookups and parse_data that  *)
(* read the registry.                                                      *)
(*                                                                         *)
(* A Python value is observed by register only through type(val), so a     *)
(* value is modelled by its runtime class (and, for a list, the runtime    *)
(* classes of its elements).  A Python string is a sequence of tokens: the *)
(* separators ":", " ", TAB, NL and whole words.                           *)
(***************************************************************************)
EXTENDS Integers, Sequences, FiniteSets, TLC

VARIABLES
    flaskrp_mapping,  \* self.flaskrp_mapping: class name -> flask-restplus model
    mm_mapping,       \* self.mm_mapping: class name -> marshmallow schema class
    nregs,            \* number of register calls of this run that stored a schema
    last,             \* the call in progress: its operation, arguments and outcome
    registered        \* history: class name -> the schemas the latest successful
                      \* register call for that name built

vars == <<flaskrp_mapping, mm_mapping, nregs, last, registered>>

(***************************************************************************)
(* Bounds                                                                  *)
(***************************************************************************)
MaxRegs == 2      \* successful register calls in one run

(***************************************************************************)
(* Python classes: __name__, __bases__ and __init__.__doc__.               *)
(***************************************************************************)
TAB == "\\t"
NL  == "\\n"
SP  == " "
COLON == ":"

\* __init__.__doc__ of TestItem: one well-formed line for x, one line in the
\* ":param y: text" shape, whose middle segment is "param y".
DocTestItem ==
    <<NL, TAB, "label", COLON, "x", COLON, SP, "dx", NL,
      TAB, COLON, "param", SP, "y", COLON, SP, "dy", NL, TAB>>

\* __init__.__doc__ of UserInt: a line without colons, a line with four
\* segments, and two lines for y (the later one wins).
DocUserInt ==
    <<"free", SP, "text", NL,
      "label", COLON, "y", COLON, "d1", NL,
      "a", COLON, "x", COLON, "see", COLON, "url", NL,
      SP, "label", SP, COLON, SP, "y", SP, COLON, SP, "d2", SP>>

NoDoc == <<>>

ClassTable ==
    [ object            |-> [name |-> "object",   bases |-> <<>>,           doc |-> NoDoc],
      int               |-> [name |-> "int",      bases |-> <<"object">>,   doc |-> NoDoc],
      bool              |-> [name |-> "bool",     bases |-> <<"int">>,      doc |-> NoDoc],
      list              |-> [name |-> "list",     bases |-> <<"object">>,   doc |-> NoDoc],
      TestItem          |-> [name |-> "TestItem", bases |-> <<"object">>,   doc |-> DocTestItem],
      InheritedTestItem |-> [name |-> "InheritedTestItem",
                             bases |-> <<"TestItem">>,                      doc |-> NoDoc],
      UserInt           |-> [name |-> "int",      bases |-> <<"object">>,   doc |-> DocUserInt],
      Mixin             |-> [name |-> "Mixin",    bases |-> <<"object">>,   doc |-> NoDoc],
      Multi             |-> [name |-> "Multi",    bases |-> <<"TestItem", "Mixin">>,
                                                                            doc |-> NoDoc] ]

ClassIds == DOMAIN ClassTable

TypeName(c) == ClassTable[c].name

\* issubclass(c, d): d is c or an ancestor of c
RECURSIVE IsSubclass(_, _)
IsSubclass(c, d) ==
    \/ c = d
    \/ \E i \in 1..Len(ClassTable[c].bases) : IsSubclass(ClassTable[c].bases[i], d)

\* the keys of TO_FLASKRP_MAPPING and TO_MM_MAPPING
TO_FLASKRP_MAPPING == {"str", "int", "float", "bool", "date", "datetime"}
TO_MM_MAPPING == {"str", "int", "float", "bool", "date", "datetime"}

(***************************************************************************)
(* Python string operations on token sequences.                            *)
(***************************************************************************)
IsSpace(t) == t \in {SP, TAB, NL}

\* str.replace(tok, "")
RECURSIVE Remove(_, _)
Remove(s, tok) ==
    IF s = <<>> THEN <<>>
    ELSE IF Head(s) = tok THEN Remove(Tail(s), tok)
    ELSE <<Head(s)>> \o Remove(Tail(s), tok)

\* str.strip()
RECURSIVE LStrip(_)
LStrip(s) == IF s # <<>> /\ IsSpace(Head(s)) THEN LStrip(Tail(s)) ELSE s

RECURSIVE RStrip(_)
RStrip(s) ==
    IF s # <<>> /\ IsSpace(s[Len(s)]) THEN RStrip(SubSeq(s, 1, Len(s) - 1)) ELSE s

Strip(s) == RStrip(LStrip(s))

\* str.split(sep): always at least one segment
RECURSIVE Split(_, _)
Split(s, sep) ==
    IF \A i \in 1..Len(s) : s[i] # sep THEN <<s>>
    ELSE LET i == CHOOSE k \in 1..Len(s) :
                     s[k] = sep /\ \A j \in 1..(k - 1) : s[j] # sep
         IN  <<SubSeq(s, 1, i - 1)>> \o Split(SubSeq(s, i + 1, Len(s)), sep)

(***************************************************************************)
(* _parse_doc_string: the map from key (a string) to description.  The map *)
(* is the sequence of (key, val) pairs saved, a later pair overriding an   *)
(* earlier one with the same key.                                          *)
(***************************************************************************)
RECURSIVE SavedPairs(_)
SavedPairs(lines) ==
    IF lines = <<>> THEN <<>>
    ELSE LET tmp == Split(Head(lines), COLON)
         IN  IF Len(tmp) # 3 THEN SavedPairs(Tail(lines))
             ELSE <<[key |-> Strip(tmp[2]), val |-> Strip(tmp[3])]>>
                      \o SavedPairs(Tail(lines))

parse_doc_string(cls) ==
    LET doc_string == ClassTable[cls].doc
    IN  IF doc_string = <<>> THEN <<>>
        ELSE SavedPairs(Split(Strip(Remove(doc_string, TAB)), NL))

NoDescription == [some |-> FALSE, text |-> <<>>]

\* key in param_to_desc_map / param_to_desc_map[key], for the attribute name key
HasDesc(map, key) == \E i \in 1..Len(map) : map[i].key = <<key>>

DescOf(map, key) ==
    IF HasDesc(map, key)
    THEN LET i == CHOOSE k \in 1..Len(map) :
                      map[k].key = <<key>> /\ \A j \in (k + 1)..Len(map) : map[j].key # <<key>>
         IN  [some |-> TRUE, text |-> map[i].val]
    ELSE NoDescription

(***************************************************************************)
(* Values, domain objects and schemas.                                     *)
(***************************************************************************)
\* attribute names; none is "make_object", the name under which register puts
\* the post_load hook into mm_dict
FieldNames == {"x", "y"}

\* a scalar value of runtime class c; a list whose elements have the classes es
Scalar(c) == [t |-> c, elems |-> <<>>]
ListOf(es) == [t |-> "list", elems |-> es]

\* flask-restplus: a field without a nested model, a model (api.model)
NoModel == [name |-> "", fields |-> <<>>]

\* marshmallow: a field without a nested schema, a schema class
NoSchema == [name |-> "", fields |-> <<>>, make_object |-> ""]

\* a variant of IsRequired: required as soon as the list names any field
AnyRequired(key, required_lst) == required_lst # {}

\* key in required_lst
IsRequired(key, required_lst) == key \in required_lst

\* a variant of Classify: the registered names are tried first
ClassifyRegistryFirst(type_name, fm) ==
    IF type_name \in DOMAIN fm THEN "Complex"
    ELSE IF type_name \in TO_FLASKRP_MAPPING THEN "Primitive"
    ELSE "Unknown"

\* the chain of tests on a runtime type name: the primitive mapping, then the
\* registered models, else the error
Classify(type_name, fm) ==
    IF type_name \in TO_FLASKRP_MAPPING THEN "Primitive"
    ELSE IF type_name \in DOMAIN fm THEN "Complex"
    ELSE "Unknown"

\* all([isinstance(elem, type(list_element)) for elem in val]), list_element = val[0]
AllIsInstance(elems) ==
    \A i \in 1..Len(elems) : IsSubclass(elems[i], elems[1])

\* the MappingError raised inside the loop body for one attribute value, or "ok"
AttrError(val, fm) ==
    IF TypeName(val.t) = "list"
    THEN IF Len(val.elems) = 0 THEN "EmptyList"
         ELSE IF ~AllIsInstance(val.elems) THEN "SameType"
         ELSE IF Classify(TypeName(val.elems[1]), fm) = "Unknown" THEN "CantFind"
         ELSE "ok"
    ELSE IF Classify(TypeName(val.t), fm) = "Unknown" THEN "CantFind"
         ELSE "ok"

\* flaskrp_dict[key] for an attribute whose AttrError is "ok"
flaskrp_field(key, val, description, required_lst, fm) ==
    IF TypeName(val.t) = "list"
    THEN LET n == TypeName(val.elems[1])
         IN  IF Classify(n, fm) = "Primitive"
             THEN [kind |-> "List", type |-> n, required |-> IsRequired(key, required_lst),
                   description |-> NoDescription, model |-> NoModel]
             ELSE [kind |-> "ListNested", type |-> n,
                   required |-> IsRequired(key, required_lst),
                   description |-> NoDescription, model |-> fm[n]]
    ELSE LET n == TypeName(val.t)
         IN  IF Classify(n, fm) = "Primitive"
             THEN [kind |-> "Primitive", type |-> n,
                   required |-> IsRequired(key, required_lst),
                   description |-> description, model |-> NoModel]
             ELSE [kind |-> "Nested", type |-> n,
                   required |-> IsRequired(key, required_lst),
                   description |-> NoDescription, model |-> fm[n]]

\* mm_dict[key] for an attribute whose AttrError is "ok"
mm_field(key, val, required_lst, fm, mm) ==
    IF TypeName(val.t) = "list"
    THEN LET n == TypeName(val.elems[1])
         IN  IF Classify(n, fm) = "Primitive"
             THEN [kind |-> "List", type |-> n, required |-> IsRequired(key, required_lst),
                   schema |-> NoSchema]
             ELSE [kind |-> "NestedMany", type |-> n,
                   required |-> IsRequired(key, required_lst), schema |-> mm[n]]
    ELSE LET n == TypeName(val.t)
         IN  IF Classify(n, fm) = "Primitive"
             THEN [kind |-> "Primitive", type |-> n,
                   required |-> IsRequired(key, required_lst), schema |-> NoSchema]
             ELSE [kind |-> "Nested", type |-> n,
                   required |-> IsRequired(key, required_lst), schema |-> mm[n]]

\* domain_obj.__dict__: a sequence of [key, val] with distinct keys
Keys(attrs) == {attrs[i].key : i \in 1..Len(attrs)}
ValOf(attrs, k) == attrs[CHOOSE i \in 1..Len(attrs) : attrs[i].key = k].val

\* a variant of Compose: an inherited field is kept on a name collision
ComposeParentWins(parent_fields, own_fields) ==
    [k \in DOMAIN parent_fields \cup DOMAIN own_fields |->
        IF k \in DOMAIN parent_fields THEN parent_fields[k] ELSE own_fields[k]]

\* api.clone and schema class inheritance: the parent's fields, overridden
\* and extended by the fields derived from the instance
Compose(parent_fields, own_fields) ==
    [k \in DOMAIN parent_fields \cup DOMAIN own_fields |->
        IF k \in DOMAIN own_fields THEN own_fields[k] ELSE parent_fields[k]]

\* a variant of Store: the mapping is replaced by one holding the new entry
StoreOnly(mapping, name, schema) == [k \in {name} |-> schema]

\* self.flaskrp_mapping[name] = ... / self.mm_mapping[name] = ...
Store(mapping, name, schema) ==
    [k \in DOMAIN mapping \cup {name} |-> IF k = name THEN schema ELSE mapping[k]]

(***************************************************************************)
(* register                                                                *)
(***************************************************************************)
\* a variant of Raise: an entry without fields is stored before the raise
RaisePartial(exc, msg, name, fm, mm) ==
    [exc |-> exc, msg |-> msg,
     flaskrp_mapping |-> Store(fm, name, [name |-> name, fields |-> <<>>]),
     mm_mapping |-> Store(mm, name, [name |-> name, fields |-> <<>>, make_object |-> ""])]

\* a raise statement ends the call: neither mapping has been assigned
Raise(exc, msg, name, fm, mm) ==
    [exc |-> exc, msg |-> msg, flaskrp_mapping |-> fm, mm_mapping |-> mm]

\* the outcome of register(domain_obj, required_lst) on the mappings fm and mm
register(domain_obj, required_lst, fm, mm) ==
    LET cls   == domain_obj.cls
        attrs == domain_obj.attrs
        name  == TypeName(cls)
        param_to_desc_map == parse_doc_string(cls)
        bad   == {i \in 1..Len(attrs) : AttrError(attrs[i].val, fm) # "ok"}
        first == CHOOSE i \in bad : \A j \in bad : i <= j
        flaskrp_dict ==
            [k \in Keys(attrs) |->
                flaskrp_field(k, ValOf(attrs, k), DescOf(param_to_desc_map, k),
                              required_lst, fm)]
        mm_dict ==
            [k \in Keys(attrs) |-> mm_field(k, ValOf(attrs, k), required_lst, fm, mm)]
        bases == ClassTable[cls].bases
        base  == TypeName(bases[1])
        Done(flaskrp_fields, mm_fields) ==
            [exc |-> "None", msg |-> "",
             flaskrp_mapping |->
                 Store(fm, name, [name |-> name, fields |-> flaskrp_fields]),
             mm_mapping |->
                 Store(mm, name, [name |-> name, fields |-> mm_fields,
                                  make_object |-> cls])]
    IN  IF bad # {}
        THEN Raise("MappingError", AttrError(attrs[first].val, fm), name, fm, mm)
        ELSE IF Len(bases) > 1
        THEN Raise("MappingError", "MultiInheritance", name, fm, mm)
        ELSE IF base # "object"
        THEN IF base \notin DOMAIN fm \/ base \notin DOMAIN mm
             THEN Raise("KeyError", base, name, fm, mm)
             ELSE Done(Compose(fm[base].fields, flaskrp_dict),
                       Compose(mm[base].fields, mm_dict))
        ELSE Done(flaskrp_dict, mm_dict)

(***************************************************************************)
(* Lookups                                                                 *)
(***************************************************************************)
NoReturn == [name |-> "", fields |-> <<>>]

\* a variant of the lookup with its membership test inverted
get_schema_inverted(domain_class, mapping) ==
    IF TypeName(domain_class) \in DOMAIN mapping
    THEN [exc |-> "MappingError", msg |-> "NotFound", ret |-> NoReturn]
    ELSE [exc |-> "None", msg |-> "", ret |-> NoReturn]

get_flask_restplus_schema(domain_class, fm) ==
    IF TypeName(domain_class) \notin DOMAIN fm
    THEN [exc |-> "MappingError", msg |-> "NotFound", ret |-> NoReturn]
    ELSE [exc |-> "None", msg |-> "", ret |-> fm[TypeName(domain_class)]]

get_marshmallow_schema(domain_class, mm) ==
    IF TypeName(domain_class) \notin DOMAIN mm
    THEN [exc |-> "MappingError", msg |-> "NotFound", ret |-> NoReturn]
    ELSE [exc |-> "None", msg |-> "", ret |-> mm[TypeName(domain_class)]]

(***************************************************************************)
(* parse_data: the schema's load and the post_load hook make_object.       *)
(* A raw JSON value is one of: the number 1 ("int"), the object {}         *)
(* ("dict"), the array [1] ("ints").                                       *)
(***************************************************************************)
RawValues == {"int", "dict", "ints"}

NoInstance == [cls |-> "", kwargs |-> <<>>]

\* whether a primitive field of the given type deserialises the raw value
PrimitiveAccepts(type_name, v) ==
    CASE type_name = "str" -> v = "str"
      [] type_name \in {"int", "float", "bool"} -> v = "int"
      [] OTHER -> FALSE

\* make_object: domain_obj.__class__(**data)
make_object(schema, data) == [cls |-> schema.make_object, kwargs |-> data]

RECURSIVE load(_, _)

\* whether a field deserialises the raw value without an error
deserializes(field, v) ==
    CASE field.kind = "Primitive"  -> PrimitiveAccepts(field.type, v)
      [] field.kind = "List"       -> v = "ints" /\ PrimitiveAccepts(field.type, "int")
      [] field.kind = "Nested"     -> v = "dict" /\ load(field.schema, <<>>).errors = {}
      [] field.kind = "NestedMany" -> FALSE

\* the value a field deserialises the raw value to
deserialize(field, v) ==
    CASE field.kind = "Primitive"  -> [py |-> v, obj |-> NoInstance]
      [] field.kind = "List"       -> [py |-> v, obj |-> NoInstance]
      [] field.kind = "Nested"     ->
             [py |-> "instance", obj |-> load(field.schema, <<>>).data]
      [] field.kind = "NestedMany" -> [py |-> "instances", obj |-> NoInstance]

\* mm_schema().load(json_data): the errors by field name, and the result of
\* the post_load hook when there are none
load(schema, json_data) ==
    LET fs == schema.fields
        errors == {f \in DOMAIN fs :
                      IF f \in DOMAIN json_data THEN ~deserializes(fs[f], json_data[f])
                      ELSE fs[f].required}
        data == [f \in (DOMAIN fs \cap DOMAIN json_data) \ errors |->
                    deserialize(fs[f], json_data[f])]
    IN  [errors |-> errors,
         data |-> IF errors = {} THEN make_object(schema, data) ELSE NoInstance]

\* a variant of parse_data that does not look at the errors of load
parse_data_unchecked(domain_class, json_data, mm) ==
    LET found == get_marshmallow_schema(domain_class, mm)
    IN  IF found.exc # "None"
        THEN [exc |-> found.exc, msg |-> found.msg, errors |-> {}, ret |-> NoInstance]
        ELSE [exc |-> "None", msg |-> "", errors |-> {},
              ret |-> make_object(found.ret,
                          [f \in DOMAIN found.ret.fields \cap DOMAIN json_data |->
                              [py |-> json_data[f], obj |-> NoInstance]])]

parse_data(domain_class, json_data, mm) ==
    LET found == get_marshmallow_schema(domain_class, mm)
        res   == load(found.ret, json_data)
    IN  IF found.exc # "None"
        THEN [exc |-> found.exc, msg |-> found.msg, errors |-> {}, ret |-> NoInstance]
        ELSE IF res.errors # {}
        THEN [exc |-> "HTTPException", msg |-> "400", errors |-> res.errors,
              ret |-> NoInstance]
        ELSE [exc |-> "None", msg |-> "", errors |-> {}, ret |-> res.data]

(***************************************************************************)
(* Inputs                                                                  *)
(***************************************************************************)
\* the classes whose instances are passed to register and to the lookups
DomainClasses == {"TestItem", "InheritedTestItem", "UserInt", "Multi"}

\* attribute values: an int, a TestItem, and lists that are empty, of one
\* class, or of a class and a subclass of it in either order
AttrValues ==
    {Scalar("int"), Scalar("TestItem"),
     ListOf(<<>>), ListOf(<<"int">>), ListOf(<<"int", "bool">>),
     ListOf(<<"bool", "int">>),
     ListOf(<<"TestItem">>), ListOf(<<"TestItem", "InheritedTestItem">>),
     ListOf(<<"InheritedTestItem", "TestItem">>)}

\* the second attribute of an instance that has two
SecondValues == {Scalar("int"), ListOf(<<>>)}

\* __dict__ in insertion order: no attribute, one, or x and y in either order
AttrSeqs ==
    {<<>>}
    \cup {<<[key |-> "x", val |-> v]>> : v \in AttrValues}
    \cup {<<[key |-> "y", val |-> v]>> : v \in {Scalar("int"), Scalar("TestItem")}}
    \cup {<<[key |-> k[1], val |-> v], [key |-> k[2], val |-> w]>> :
             k \in {<<"x", "y">>, <<"y", "x">>},
             v \in {Scalar("int"), Scalar("TestItem")}, w \in SecondValues}

RequiredLists == {{}, {"x"}}

RawDatas == UNION {[S -> RawValues] : S \in SUBSET FieldNames}

(***************************************************************************)
(* The state machine                                                       *)
(***************************************************************************)
Call(op, cls, attrs, required_lst, raw, out, errors, ret) ==
    [op |-> op, cls |-> cls, attrs |-> attrs, required_lst |-> required_lst,
     raw |-> raw, exc |-> out.exc, msg |-> out.msg, errors |-> errors, ret |-> ret]

\* no call is in progress: the caller is about to make its next call
Idle == Call("idle", "", <<>>, {}, <<>>, [exc |-> "None", msg |-> ""], {}, NoReturn)

Init ==
    /\ flaskrp_mapping = <<>>
    /\ mm_mapping = <<>>
    /\ nregs = 0
    /\ last = Idle
    /\ registered = <<>>

\* the schemas a successful register call built for name
Built(out, name) ==
    [flaskrp |-> out.flaskrp_mapping[name], mm |-> out.mm_mapping[name]]

Register ==
    /\ last = Idle
    /\ nregs < MaxRegs
    /\ \E cls \in DomainClasses, attrs \in AttrSeqs, required_lst \in RequiredLists :
          \E out \in {register([cls |-> cls, attrs |-> attrs], required_lst,
                               flaskrp_mapping, mm_mapping)} :
              /\ flaskrp_mapping' = out.flaskrp_mapping
              /\ mm_mapping' = out.mm_mapping
              /\ nregs' = IF out.exc = "None" THEN nregs + 1 ELSE nregs
              /\ registered' =
                    IF out.exc = "None"
                    THEN (TypeName(cls) :> Built(out, TypeName(cls))) @@ registered
                    ELSE registered
              /\ last' = Call("register", cls, attrs, required_lst, <<>>, out, {}, NoReturn)

GetFlaskRestplusSchema ==
    /\ last = Idle
    /\ \E cls \in DomainClasses :
        \E out \in {get_flask_restplus_schema(cls, flaskrp_mapping)} :
            /\ last' = Call("get_flask_restplus_schema", cls, <<>>, {}, <<>>, out, {}, out.ret)
            /\ UNCHANGED <<flaskrp_mapping, mm_mapping, nregs, registered>>

GetMarshmallowSchema ==
    /\ last = Idle
    /\ \E cls \in DomainClasses :
        \E out \in {get_marshmallow_schema(cls, mm_mapping)} :
            /\ last' = Call("get_marshmallow_schema", cls, <<>>, {}, <<>>, out, {}, out.ret)
            /\ UNCHANGED <<flaskrp_mapping, mm_mapping, nregs, registered>>

ParseData ==
    /\ last = Idle
    /\ \E cls \in DomainClasses, raw \in RawDatas :
        \E out \in {parse_data(cls, raw, mm_mapping)} :
            /\ last' = Call("parse_data", cls, <<>>, {}, raw, out, out.errors, out.ret)
            /\ UNCHANGED <<flaskrp_mapping, mm_mapping, nregs, registered>>

\* the call has returned (or raised) to its caller, which goes on
Return ==
    /\ last # Idle
    /\ last' = Idle
    /\ UNCHANGED <<flaskrp_mapping, mm_mapping, nregs, registered>>

Next == Register \/ GetFlaskRestplusSchema \/ GetMarshmallowSchema \/ ParseData \/ Return

Spec == Init /\ [][Next]_vars

\* The registry once the application's first start-up registration,
\* m.register(testItem, required_lst=[...]), has been made: a TestItem with one
\* primitive attribute, which is required.
InitStarted ==
    \E out \in {register([cls |-> "TestItem",
                          attrs |-> <<[key |-> "x", val |-> Scalar("int")]>>],
                         {"x"}, <<>>, <<>>)} :
        /\ flaskrp_mapping = out.flaskrp_mapping
        /\ mm_mapping = out.mm_mapping
        /\ nregs = 0
        /\ last = Idle
        /\ registered = ("TestItem" :> Built(out, "TestItem"))

SpecStarted == InitStarted /\ [][Next]_vars

(***************************************************************************)
(* Properties                                                              *)
(***************************************************************************)
\* the class name the call in progress is about
LastName == TypeName(last.cls)

RegisterDone == last.op = "register" /\ last.exc = "None"

\* the runtime type name register classifies an attribute value by
ValueTypeName(val) ==
    IF TypeName(val.t) = "list" THEN TypeName(val.elems[1]) ELSE TypeName(val.t)

\* the six fixed scalar kinds
ScalarKinds == {"str", "int", "float", "bool", "date", "datetime"}

\* C1: a register call either succeeds and stores an output and an input
\* schema under the class's name, or fails and leaves both mappings exactly
\* as they were before the call.
C1_RegisterAllOrNothing ==
    [][last'.op = "register" =>
          \/ /\ last'.exc = "None"
             /\ TypeName(last'.cls) \in DOMAIN flaskrp_mapping'
             /\ TypeName(last'.cls) \in DOMAIN mm_mapping'
             /\ flaskrp_mapping'[TypeName(last'.cls)].name = TypeName(last'.cls)
             /\ mm_mapping'[TypeName(last'.cls)].make_object = last'.cls
          \/ /\ last'.exc # "None"
             /\ flaskrp_mapping' = flaskrp_mapping
             /\ mm_mapping' = mm_mapping]_vars

\* a register call has failed on an empty list for a class that is registered
C1_Witness ==
    /\ last.op = "register"
    /\ last.exc = "MappingError" /\ last.msg = "EmptyList"
    /\ LastName \in DOMAIN flaskrp_mapping

\* C2: registering an instance whose attributes all classify, of a class whose
\* single declared parent is not object and is not registered, fails with a
\* MappingError and stores nothing.
C2_UnregisteredParentIsMappingError ==
    [][(/\ last'.op = "register"
        /\ Len(ClassTable[last'.cls].bases) = 1
        /\ TypeName(ClassTable[last'.cls].bases[1]) # "object"
        /\ TypeName(ClassTable[last'.cls].bases[1]) \notin DOMAIN flaskrp_mapping
        /\ \A i \in 1..Len(last'.attrs) :
              AttrError(last'.attrs[i].val, flaskrp_mapping) = "ok")
       => /\ last'.exc = "MappingError"
          /\ flaskrp_mapping' = flaskrp_mapping
          /\ mm_mapping' = mm_mapping]_vars

\* C3: a lookup fails with MappingError exactly when no register call for the
\* class's name has succeeded, and returns the schema the latest such call
\* built otherwise; parse_data of a never registered class fails the same
\* way; the key sets of both mappings only grow.
C3_LookupIffRegistered ==
    [][/\ DOMAIN flaskrp_mapping \subseteq DOMAIN flaskrp_mapping'
       /\ DOMAIN mm_mapping \subseteq DOMAIN mm_mapping'
       /\ last'.op = "get_flask_restplus_schema" =>
             IF TypeName(last'.cls) \in DOMAIN registered'
             THEN last'.exc = "None"
                  /\ last'.ret = registered'[TypeName(last'.cls)].flaskrp
             ELSE last'.exc = "MappingError" /\ last'.msg = "NotFound"
       /\ last'.op = "get_marshmallow_schema" =>
             IF TypeName(last'.cls) \in DOMAIN registered'
             THEN last'.exc = "None"
                  /\ last'.ret = registered'[TypeName(last'.cls)].mm
             ELSE last'.exc = "MappingError" /\ last'.msg = "NotFound"
       /\ last'.op = "parse_data" =>
             (TypeName(last'.cls) \in DOMAIN registered' <=> last'.msg # "NotFound")]_vars

\* a lookup returns the schema of a class that has been registered twice
C3_Witness ==
    /\ last.op = "get_flask_restplus_schema"
    /\ last.exc = "None"
    /\ nregs = 2
    /\ DOMAIN flaskrp_mapping = {LastName}
    /\ last.ret.fields # <<>>

\* C4 as stated: the input schema of a registered class marks exactly the
\* fields named in the required list as required.
C4_ExactlyRequiredListRequired ==
    RegisterDone =>
        \A f \in DOMAIN mm_mapping[LastName].fields :
            mm_mapping[LastName].fields[f].required = (f \in last.required_lst)

\* C4 amended: every field derived from an attribute of the registered
\* instance is required exactly when its name is in the required list; a
\* field the instance does not carry is the parent's stored field, with the
\* parent's required flag.
C4_DerivedFieldsRequiredInheritedKept ==
    RegisterDone =>
        LET fields == mm_mapping[LastName].fields
            base   == TypeName(ClassTable[last.cls].bases[1])
        IN  /\ \A f \in Keys(last.attrs) :
                   f \in DOMAIN fields /\ fields[f].required = (f \in last.required_lst)
            /\ \A f \in DOMAIN fields \ Keys(last.attrs) :
                   /\ base \in DOMAIN mm_mapping
                   /\ f \in DOMAIN mm_mapping[base].fields
                   /\ fields[f] = mm_mapping[base].fields[f]

\* a child is registered with a required nested field of its own, and
\* inherits a field that is required although the call did not name it
C4_Witness ==
    /\ RegisterDone
    /\ last.cls = "InheritedTestItem"
    /\ last.required_lst = {}
    /\ Keys(last.attrs) = {"y"}
    /\ mm_mapping[LastName].fields["y"].kind = "Nested"
    /\ "x" \in DOMAIN mm_mapping[LastName].fields
    /\ mm_mapping[LastName].fields["x"].required

\* C5: register fails with the same-type MappingError whenever the first
\* attribute that does not classify cleanly is a non-empty list holding an
\* element whose runtime class is not the class of the first element.
C5_MixedListAlwaysFails ==
    [][(/\ last'.op = "register"
        /\ \E i \in 1..Len(last'.attrs) :
              /\ TypeName(last'.attrs[i].val.t) = "list"
              /\ \E j \in 1..Len(last'.attrs[i].val.elems) :
                    last'.attrs[i].val.elems[j] # last'.attrs[i].val.elems[1]
              /\ \A h \in 1..(i - 1) :
                    AttrError(last'.attrs[h].val, flaskrp_mapping) = "ok")
       => last'.exc = "MappingError" /\ last'.msg = "SameType"]_vars

\* C6: registering a child of a registered parent stores output and input
\* schemas that hold the parent's stored fields and the fields derived from
\* the child's instance, the derived field replacing an inherited field of
\* the same name.
C6_ChildExtendsParent ==
    [][(/\ last'.op = "register" /\ last'.exc = "None"
        /\ Len(ClassTable[last'.cls].bases) = 1
        /\ TypeName(ClassTable[last'.cls].bases[1]) # "object")
       => LET name == TypeName(last'.cls)
              base == TypeName(ClassTable[last'.cls].bases[1])
              own  == Keys(last'.attrs)
              outF == flaskrp_mapping'[name].fields
              inF  == mm_mapping'[name].fields
              pOut == flaskrp_mapping[base].fields
              pIn  == mm_mapping[base].fields
          IN  /\ DOMAIN outF = DOMAIN pOut \cup own
              /\ DOMAIN inF = DOMAIN pIn \cup own
              /\ \A f \in DOMAIN pOut \ own : outF[f] = pOut[f]
              /\ \A f \in DOMAIN pIn \ own : inF[f] = pIn[f]
              /\ \A f \in own :
                    /\ outF[f] = flaskrp_field(f, ValOf(last'.attrs, f),
                                     DescOf(parse_doc_string(last'.cls), f),
                                     last'.required_lst, flaskrp_mapping)
                    /\ inF[f] = mm_field(f, ValOf(last'.attrs, f), last'.required_lst,
                                     flaskrp_mapping, mm_mapping)]_vars

\* a child carrying x is registered over a parent with fields x and y: it
\* inherits y and its own x differs from the parent's
C6_Witness ==
    /\ RegisterDone
    /\ last.cls = "InheritedTestItem"
    /\ Keys(last.attrs) = {"x"}
    /\ DOMAIN flaskrp_mapping["TestItem"].fields = {"x", "y"}
    /\ DOMAIN flaskrp_mapping[LastName].fields = {"x", "y"}
    /\ DOMAIN mm_mapping[LastName].fields = {"x", "y"}
    /\ flaskrp_mapping[LastName].fields["x"] # flaskrp_mapping["TestItem"].fields["x"]
    /\ mm_mapping[LastName].fields["x"] # mm_mapping["TestItem"].fields["x"]

\* C7: after a successful register, the output field of every attribute
\* carries the description its documentation line gives, and none when there
\* is no such line, whatever the kind of the field.
C7_DocumentedFieldsDescribed ==
    RegisterDone =>
        \A f \in Keys(last.attrs) :
            flaskrp_mapping[LastName].fields[f].description
                = DescOf(parse_doc_string(last.cls), f)

\* C8: parse_data of a never registered class fails with the not-found
\* MappingError before any validation; of a registered class it reports an
\* error for every required field the data omits and builds no instance;
\* it builds an instance of the class, by keyword from the validated values,
\* exactly when every field rule passes.
C8_ParseData ==
    last.op = "parse_data" =>
        IF LastName \notin DOMAIN registered
        THEN /\ last.exc = "MappingError" /\ last.msg = "NotFound"
             /\ last.errors = {} /\ last.ret = NoInstance
        ELSE LET fields  == registered[LastName].mm.fields
                 missing == {f \in DOMAIN fields :
                                fields[f].required /\ f \notin DOMAIN last.raw}
                 invalid == {f \in DOMAIN fields \cap DOMAIN last.raw :
                                ~deserializes(fields[f], last.raw[f])}
             IN  /\ last.errors = missing \cup invalid
                 /\ last.errors # {} =>
                       last.exc = "HTTPException" /\ last.ret = NoInstance
                 /\ last.errors = {} =>
                       /\ last.exc = "None"
                       /\ last.ret.cls = last.cls
                       /\ DOMAIN last.ret.kwargs = DOMAIN fields \cap DOMAIN last.raw

\* the data omits the required x and holds a valid y: the error names x only
\* and no instance is built
C8_Witness ==
    /\ last.op = "parse_data"
    /\ last.exc = "HTTPException"
    /\ "x" \notin DOMAIN last.raw /\ "y" \in DOMAIN last.raw
    /\ "y" \in DOMAIN mm_mapping[LastName].fields
    /\ last.errors = {"x"}
    /\ last.ret = NoInstance

\* C9: register classifies an attribute by its runtime type name: a
\* primitive field when the name is a scalar kind, registered or not;
\* otherwise a field nesting the model registered under that name; otherwise
\* the call fails.  An instance of a class without a parent whose attributes
\* are all scalars of known type names registers.
C9_ClassifiesByTypeName ==
    [][last'.op = "register" =>
          LET attrs == last'.attrs
              Typed == {i \in 1..Len(attrs) :
                           TypeName(attrs[i].val.t) = "list" => attrs[i].val.elems # <<>>}
              Unknown(i) ==
                  /\ ValueTypeName(attrs[i].val) \notin ScalarKinds
                  /\ ValueTypeName(attrs[i].val) \notin DOMAIN flaskrp_mapping
              Root == /\ Len(ClassTable[last'.cls].bases) = 1
                      /\ TypeName(ClassTable[last'.cls].bases[1]) = "object"
          IN  /\ last'.msg = "CantFind" => \E i \in Typed : Unknown(i)
              /\ (/\ Root
                  /\ \A i \in 1..Len(attrs) :
                        TypeName(attrs[i].val.t) # "list" /\ ~Unknown(i))
                 => last'.exc = "None"
              /\ (\E i \in Typed : Unknown(i)) => last'.exc = "MappingError"
              /\ last'.exc = "None" =>
                    \A i \in 1..Len(attrs) :
                        LET n == ValueTypeName(attrs[i].val)
                            f == flaskrp_mapping'[TypeName(last'.cls)].fields[attrs[i].key]
                            g == mm_mapping'[TypeName(last'.cls)].fields[attrs[i].key]
                        IN  IF n \in ScalarKinds
                            THEN /\ f.kind \in {"Primitive", "List"} /\ f.type = n
                                 /\ f.model = NoModel
                                 /\ g.kind \in {"Primitive", "List"} /\ g.type = n
                                 /\ g.schema = NoSchema
                            ELSE /\ n \in DOMAIN flaskrp_mapping
                                 /\ f.kind \in {"Nested", "ListNested"} /\ f.type = n
                                 /\ f.model = flaskrp_mapping[n]
                                 /\ g.kind \in {"Nested", "NestedMany"} /\ g.type = n
                                 /\ g.schema = mm_mapping[n]]_vars

\* an int attribute is classified as a primitive while a class named int is
\* registered
C9_Witness ==
    /\ RegisterDone
    /\ last.cls = "TestItem"
    /\ "int" \in DOMAIN flaskrp_mapping
    /\ \E i \in 1..Len(last.attrs) :
          /\ last.attrs[i].val = Scalar("int")
          /\ flaskrp_mapping[LastName].fields[last.attrs[i].key].kind = "Primitive"

\* C10: a successful register call changes no entry of either mapping other
\* than the one keyed by the registered class's name.
C10_OtherEntriesUnchanged ==
    [][(last'.op = "register" /\ last'.exc = "None") =>
          /\ \A k \in DOMAIN flaskrp_mapping \ {TypeName(last'.cls)} :
                k \in DOMAIN flaskrp_mapping' /\ flaskrp_mapping'[k] = flaskrp_mapping[k]
          /\ \A k \in DOMAIN mm_mapping \ {TypeName(last'.cls)} :
                k \in DOMAIN mm_mapping' /\ mm_mapping'[k] = mm_mapping[k]]_vars

\* TestItem has been registered again with other fields while another entry
\* nests the model of TestItem that was stored when that entry was registered
C10_Witness ==
    /\ RegisterDone
    /\ last.cls = "TestItem"
    /\ \E k \in DOMAIN flaskrp_mapping \ {"TestItem"} :
          \E f \in DOMAIN flaskrp_mapping[k].fields :
              /\ flaskrp_mapping[k].fields[f].kind \in {"Nested", "ListNested"}
              /\ flaskrp_mapping[k].fields[f].type = "TestItem"
              /\ flaskrp_mapping[k].fields[f].model # flaskrp_mapping["TestItem"]
              /\ mm_mapping[k].fields[f].schema # mm_mapping["TestItem"]

====
